---- MODULE Spec2Model ----
(***************************************************************************)
(* Model of the user CRUD pipeline of fiber-backend: the fiber handlers    *)
(* (internal/handlers/user_handler.go), the UserService                    *)
(* (internal/services, printed in src/internal/config/config.go from line  *)
(* 139), the sqlc queries (src/unnamed/part_002) and the users table       *)
(* (src/unnamed/part_001).  One action per request; a request that issues  *)
(* two SQL statements (ListUsers) is two actions, since other requests run *)
(* between its statements.                                                 *)
(***************************************************************************)
EXTENDS Integers, Sequences, FiniteSets, TLC

VARIABLES
    users,      \* the rows of table users
    seq,        \* last value handed out by the SERIAL sequence of users.id
    clock,      \* CURRENT_TIMESTAMP of the last statement that wrote a row
    resp,       \* the answer to the last request that completed
    before,     \* history: the rows as they were when that request started
    listing,    \* the ListUsers call that has run its SELECT and not yet its COUNT
    deleted,    \* history: the path ids whose DELETE request was answered 204
    updating    \* the UpdateUser calls that were split in two steps: those that
                \* have parsed their request and not yet run their UPDATE, and
                \* (history) those that have run it

vars == <<users, seq, clock, resp, before, listing, deleted, updating>>

(***************************************************************************)
(* Bounds of the model.                                                    *)
(***************************************************************************)
\* how many ids the sequence hands out (successful and failed INSERTs)
MaxSerial == 2
\* how many statements write a row (each one at a later CURRENT_TIMESTAMP)
MaxClock == 2

(***************************************************************************)
(* Go values.                                                              *)
(***************************************************************************)
\* A Go int (64 bits) v is the pair <<H, L>> with v = H * 2^32 + L and L its
\* low 32 bits read as a signed number, so that every v has one pair.
GoInt(n) == <<0, n>>

High(v) == v[1]

\* int32(v): the conversion keeps the low 32 bits.
Int32Of(v) == v[2]

\* v < n and v > n for a small n >= 0 (a 32 bit constant of the code).
IntLess(v, n) == High(v) < 0 \/ (High(v) = 0 /\ v[2] < n)
IntGreater(v, n) == High(v) > 0 \/ (High(v) = 0 /\ v[2] > n)

\* A pointer (*string, *bool) is <<>> for nil and <<x>> for a pointer to x.
Nil == <<>>
Ptr(x) == <<x>>

\* sql.NullString / sql.NullBool; the zero value is the SQL NULL.
Null(zero) == [Val |-> zero, Valid |-> FALSE]
NotNull(x) == [Val |-> x, Valid |-> TRUE]

\* COALESCE(param, column)
Coalesce(param, column) == IF param.Valid THEN param.Val ELSE column

(***************************************************************************)
(* bcrypt (golang.org/x/crypto/bcrypt): a salted one-way hash.  The digest *)
(* is a function of the salt and the password; the comparison recomputes   *)
(* it with the salt stored in the hash.                                    *)
(***************************************************************************)
DefaultCost == 10
Salts == {"s1"}
Digest(salt, cost, password) == <<"bf", salt, cost, password>>
GenerateFromPassword(password, cost, salt) ==
    [salt |-> salt, cost |-> cost, digest |-> Digest(salt, cost, password)]
CompareHashAndPassword(hash, password) ==
    hash.digest = Digest(hash.salt, hash.cost, password)

\* (v - 1) and (v * k) for 1 <= k <= 100 in 64 bit arithmetic, on the pairs:
\* the low word is split in 16 bit halves so that no product leaves 32 bits.
MinInt32 == -2147483647 - 1
MaxInt32 == 2147483647
Half == 65536
Signed16(x) == IF x >= 32768 THEN x - Half ELSE x
IntSub1(v) == IF v[2] = MinInt32 THEN <<v[1] - 1, MaxInt32>> ELSE <<v[1], v[2] - 1>>
IntMul(v, k) ==
    LET a == v[2] \div Half
        b == v[2] % Half
        p == b * k
        c == a * k + (p \div Half)
        cs == Signed16(c % Half)
    IN  <<v[1] * k + ((c - cs) \div Half), cs * Half + (p % Half)>>

(***************************************************************************)
(* The users table and the sqlc queries.  A statement is atomic.  An       *)
(* outcome is [err, rows, users, seq, clock]: err is "" on success,        *)
(* "no rows" for sql.ErrNoRows, "unique" for a violated UNIQUE constraint, *)
(* and any other text for another failure of the statement (a lost         *)
(* connection, a cancelled context), which `fault` injects.                *)
(***************************************************************************)
ErrNoRows == "sql: no rows in result set"
ErrUnique == "pq: duplicate key value violates unique constraint"
ErrFault == "context canceled"
ErrOffset == "pq: OFFSET must not be negative"

Outcome(err, rows, us, sq, ck) ==
    [err |-> err, rows |-> rows, users |-> us, seq |-> sq, clock |-> ck]
Failed(err) == Outcome(err, <<>>, users, seq, clock)

\* email VARCHAR(255) NOT NULL UNIQUE, username VARCHAR(100) NOT NULL UNIQUE
UniqueBad(rows) == TRUE
Unique(rows) ==
    \A r1, r2 \in rows :
        r1 # r2 => r1.email # r2.email /\ r1.username # r2.username

\* the same INSERT with the id taken from the number of rows, not the sequence
QCreateUserReusing(arg, fault) ==
    LET row == [id |-> Cardinality(users) + 1, email |-> arg.Email,
                username |-> arg.Username,
                password_hash |-> arg.PasswordHash,
                first_name |-> arg.FirstName, last_name |-> arg.LastName,
                is_active |-> TRUE,
                created_at |-> clock + 1, updated_at |-> clock + 1]
    IN  IF fault THEN Failed(ErrFault)
        ELSE IF ~Unique(users \cup {row})
             THEN Outcome(ErrUnique, <<>>, users, seq + 1, clock)
             ELSE Outcome("", <<row>>, users \cup {row}, seq + 1, clock + 1)

\* INSERT INTO users (...) VALUES ($1..$5) RETURNING *: id from the sequence
\* (a value is consumed also when the INSERT fails on a constraint),
\* is_active DEFAULT TRUE, created_at and updated_at DEFAULT CURRENT_TIMESTAMP.
QCreateUser(arg, fault) ==
    LET row == [id |-> seq + 1, email |-> arg.Email, username |-> arg.Username,
                password_hash |-> arg.PasswordHash,
                first_name |-> arg.FirstName, last_name |-> arg.LastName,
                is_active |-> TRUE,
                created_at |-> clock + 1, updated_at |-> clock + 1]
    IN  IF fault THEN Failed(ErrFault)
        ELSE IF ~Unique(users \cup {row})
             THEN Outcome(ErrUnique, <<>>, users, seq + 1, clock)
             ELSE Outcome("", <<row>>, users \cup {row}, seq + 1, clock + 1)

\* SELECT * FROM users WHERE id = $1 LIMIT 1
QGetUserByID(id, fault) ==
    IF fault THEN Failed(ErrFault)
    ELSE IF \E r \in users : r.id = id
         THEN Outcome("", <<CHOOSE r \in users : r.id = id>>, users, seq, clock)
         ELSE Failed(ErrNoRows)

\* SELECT * FROM users WHERE email = $1 LIMIT 1
QGetUserByEmail(email, fault) ==
    IF fault THEN Failed(ErrFault)
    ELSE IF \E r \in users : r.email = email
         THEN Outcome("", <<CHOOSE r \in users : r.email = email>>, users, seq, clock)
         ELSE Failed(ErrNoRows)

\* The rows by created_at, latest first.
RECURSIVE ByCreatedDesc(_)
ByCreatedDesc(rows) ==
    IF rows = {} THEN <<>>
    ELSE LET r == CHOOSE x \in rows : \A y \in rows : y.created_at <= x.created_at
         IN  <<r>> \o ByCreatedDesc(rows \ {r})

\* SELECT * FROM users ORDER BY created_at DESC LIMIT $1 OFFSET $2
QListUsers(limit, offset, fault) ==
    LET sorted == ByCreatedDesc(users)
    IN  IF fault THEN Failed(ErrFault)
        ELSE IF offset < 0 THEN Failed(ErrOffset)
        ELSE IF offset >= Len(sorted) THEN Outcome("", <<>>, users, seq, clock)
        ELSE Outcome("", SubSeq(sorted, offset + 1,
                                IF limit < Len(sorted) - offset
                                THEN offset + limit ELSE Len(sorted)),
                     users, seq, clock)

\* SELECT COUNT(*) FROM users
QCountUsers(fault) ==
    IF fault THEN Failed(ErrFault)
    ELSE Outcome("", <<Cardinality(users)>>, users, seq, clock)

\* UPDATE users SET email = COALESCE($2, email), ..., updated_at =
\* CURRENT_TIMESTAMP WHERE id = $1 RETURNING *  (:one, so no row is ErrNoRows)
UpdatedRowOverwriting(old, arg) ==
    [old EXCEPT !.email = Coalesce(arg.Email, old.email),
                !.username = Coalesce(arg.Username, old.username),
                !.first_name = arg.FirstName,
                !.last_name = arg.LastName,
                !.is_active = Coalesce(arg.IsActive, old.is_active),
                !.updated_at = clock + 1]
UpdatedRow(old, arg) ==
    [old EXCEPT !.email = Coalesce(arg.Email, old.email),
                !.username = Coalesce(arg.Username, old.username),
                !.first_name = IF arg.FirstName.Valid THEN arg.FirstName
                               ELSE old.first_name,
                !.last_name = IF arg.LastName.Valid THEN arg.LastName
                              ELSE old.last_name,
                !.is_active = Coalesce(arg.IsActive, old.is_active),
                !.updated_at = clock + 1]

QUpdateUser(arg, fault) ==
    IF fault THEN Failed(ErrFault)
    ELSE IF ~\E r \in users : r.id = arg.ID THEN Failed(ErrNoRows)
    ELSE LET old == CHOOSE r \in users : r.id = arg.ID
             new == UpdatedRow(old, arg)
             rows == (users \ {old}) \cup {new}
         IN  IF ~Unique(rows) THEN Failed(ErrUnique)
             ELSE Outcome("", <<new>>, rows, seq, clock + 1)

\* DELETE FROM users WHERE id = $1  (:exec, so no row is no error)
QDeleteUser(id, fault) ==
    IF fault THEN Failed(ErrFault)
    ELSE Outcome("", <<>>, {r \in users : r.id # id}, seq, clock)

\* UPDATE users SET password_hash = $2, updated_at = CURRENT_TIMESTAMP
\* WHERE id = $1  (:exec)
QUpdateUserPassword(id, hash, fault) ==
    IF fault THEN Failed(ErrFault)
    ELSE IF ~\E r \in users : r.id = id THEN Outcome("", <<>>, users, seq, clock)
    ELSE Outcome("", <<>>,
                 {IF r.id = id
                  THEN [r EXCEPT !.password_hash = hash, !.updated_at = clock + 1]
                  ELSE r : r \in users},
                 seq, clock + 1)

\* the same UPDATE as DeactivateUser without its updated_at
QDeactivateUserStale(id, fault) ==
    IF fault THEN Failed(ErrFault)
    ELSE IF ~\E r \in users : r.id = id THEN Outcome("", <<>>, users, seq, clock)
    ELSE Outcome("", <<>>,
                 {IF r.id = id THEN [r EXCEPT !.is_active = FALSE] ELSE r : r \in users},
                 seq, clock + 1)

\* UPDATE users SET is_active = false, updated_at = CURRENT_TIMESTAMP
\* WHERE id = $1  (:exec)
QDeactivateUser(id, fault) ==
    IF fault THEN Failed(ErrFault)
    ELSE IF ~\E r \in users : r.id = id THEN Outcome("", <<>>, users, seq, clock)
    ELSE Outcome("", <<>>,
                 {IF r.id = id
                  THEN [r EXCEPT !.is_active = FALSE, !.updated_at = clock + 1]
                  ELSE r : r \in users},
                 seq, clock + 1)

(***************************************************************************)
(* models: the request and response structures and their JSON form.  A     *)
(* JSON object is a function from its keys; a key that is absent is not in *)
(* its domain.                                                             *)
(***************************************************************************)
Field(json, key) == IF key \in DOMAIN json THEN json[key] ELSE ""
PtrField(json, key) == IF key \in DOMAIN json THEN Ptr(json[key]) ELSE Nil

\* BodyParser into CreateUserRequest: string fields, "" when the key is absent.
CreateUserRequest(json) ==
    [Email |-> Field(json, "email"), Username |-> Field(json, "username"),
     Password |-> Field(json, "password"),
     FirstName |-> Field(json, "first_name"),
     LastName |-> Field(json, "last_name")]

\* BodyParser into UpdateUserRequest: pointer fields, nil when the key is absent.
UpdateUserRequest(json) ==
    [Email |-> PtrField(json, "email"), Username |-> PtrField(json, "username"),
     FirstName |-> PtrField(json, "first_name"),
     LastName |-> PtrField(json, "last_name"),
     IsActive |-> PtrField(json, "is_active")]

\* The json tags of UserResponse; a field without a tag is written under its
\* own name, a nil pointer tagged omitempty is left out.
JSONTags ==
    [ID |-> "id", Email |-> "email", Username |-> "username",
     FirstName |-> "first_name", LastName |-> "last_name",
     IsActive |-> "is_active", CreatedAt |-> "created_at",
     UpdatedAt |-> "updated_at"]
OmitEmpty == {"FirstName", "LastName"}
Tag(f) == IF f \in DOMAIN JSONTags THEN JSONTags[f] ELSE f

Marshal(u) ==
    LET kept == {f \in DOMAIN u : ~(f \in OmitEmpty /\ u[f] = Nil)}
    IN  [k \in {Tag(f) : f \in kept} |->
            LET f == CHOOSE g \in kept : Tag(g) = k
            IN  IF f \in OmitEmpty THEN u[f][1] ELSE u[f]]

\* models.ErrorResponse
ErrorResponse(error, code) == [error |-> error, code |-> code]

(***************************************************************************)
(* services.UserService.  An error is <<>> (nil), <<msg>> (fmt.Errorf of a *)
(* text) or <<msg, cause>> (fmt.Errorf("msg: %w", cause)).  The texts are  *)
(* the English of the Russian ones of the source.  A result is             *)
(* [user, err, out]: the *UserResponse (nil on failure), the error and the *)
(* outcome of the statement that ran.                                      *)
(***************************************************************************)
NoError == <<>>
MsgCreate == "create user failed"            \* config.go:188
MsgNotFound == "user not found"              \* config.go:200, 214, 291
MsgGet == "get user failed"                  \* config.go:202, 216
MsgList == "list users failed"               \* config.go:234
MsgCount == "count users failed"             \* config.go:240
MsgUpdate == "update user failed"            \* config.go:293
MsgDelete == "delete user failed"            \* config.go:303
MsgDeactivate == "deactivate user failed"    \* config.go:313
MsgAuth == "wrong email or password"         \* config.go:325, 334
MsgVerify == "verify password failed"        \* config.go:327

Result(user, err, out) == [user |-> user, err |-> err, out |-> out]

toUserResponseLeaky(user) ==
    [ID |-> user.id, Email |-> user.email, Username |-> user.username,
     PasswordHash |-> user.password_hash,
     IsActive |-> user.is_active, CreatedAt |-> user.created_at,
     UpdatedAt |-> user.updated_at,
     FirstName |-> IF user.first_name.Valid THEN Ptr(user.first_name.Val) ELSE Nil,
     LastName |-> IF user.last_name.Valid THEN Ptr(user.last_name.Val) ELSE Nil]
toUserResponse(user) ==
    [ID |-> user.id, Email |-> user.email, Username |-> user.username,
     IsActive |-> user.is_active, CreatedAt |-> user.created_at,
     UpdatedAt |-> user.updated_at,
     FirstName |-> IF user.first_name.Valid THEN Ptr(user.first_name.Val) ELSE Nil,
     LastName |-> IF user.last_name.Valid THEN Ptr(user.last_name.Val) ELSE Nil]

\* sql.NullString{String: s, Valid: s != ""}
NullIfEmpty(s) == [Val |-> s, Valid |-> s # ""]

SvcCreateUser(req, salt, fault) ==
    LET passwordHash == GenerateFromPassword(req.Password, DefaultCost, salt)
        out == QCreateUser([Email |-> req.Email, Username |-> req.Username,
                            PasswordHash |-> passwordHash,
                            FirstName |-> NullIfEmpty(req.FirstName),
                            LastName |-> NullIfEmpty(req.LastName)], fault)
    IN  IF out.err # "" THEN Result(Nil, <<MsgCreate, out.err>>, out)
        ELSE Result(Ptr(toUserResponse(out.rows[1])), NoError, out)

SvcGetUserByID(id, fault) ==
    LET out == QGetUserByID(Int32Of(id), fault)
    IN  IF out.err = ErrNoRows THEN Result(Nil, <<MsgNotFound>>, out)
        ELSE IF out.err # "" THEN Result(Nil, <<MsgGet, out.err>>, out)
        ELSE Result(Ptr(toUserResponse(out.rows[1])), NoError, out)

SvcGetUserByEmail(email, fault) ==
    LET out == QGetUserByEmail(email, fault)
    IN  IF out.err = ErrNoRows THEN Result(Nil, <<MsgNotFound>>, out)
        ELSE IF out.err # "" THEN Result(Nil, <<MsgGet, out.err>>, out)
        ELSE Result(Ptr(toUserResponse(out.rows[1])), NoError, out)

\* if req.X != nil { params.X = sql.Null*{.., Valid: true} }
NullOf(ptr, zero) == IF ptr = Nil THEN Null(zero) ELSE NotNull(ptr[1])

UpdateUserParamsZeroed(id, req) ==
    [ID |-> Int32Of(id),
     Email |-> NullIfEmpty(IF req.Email = Nil THEN "" ELSE req.Email[1]),
     Username |-> NullIfEmpty(IF req.Username = Nil THEN "" ELSE req.Username[1]),
     FirstName |-> NullIfEmpty(IF req.FirstName = Nil THEN "" ELSE req.FirstName[1]),
     LastName |-> NullIfEmpty(IF req.LastName = Nil THEN "" ELSE req.LastName[1]),
     IsActive |-> NullOf(req.IsActive, FALSE)]
UpdateUserParams(id, req) ==
    [ID |-> Int32Of(id),
     Email |-> NullOf(req.Email, ""), Username |-> NullOf(req.Username, ""),
     FirstName |-> NullOf(req.FirstName, ""),
     LastName |-> NullOf(req.LastName, ""),
     IsActive |-> NullOf(req.IsActive, FALSE)]

SvcUpdateUser(id, req, fault) ==
    LET out == QUpdateUser(UpdateUserParams(id, req), fault)
    IN  IF out.err = ErrNoRows THEN Result(Nil, <<MsgNotFound>>, out)
        ELSE IF out.err # "" THEN Result(Nil, <<MsgUpdate, out.err>>, out)
        ELSE Result(Ptr(toUserResponse(out.rows[1])), NoError, out)

SvcDeleteUser(id, fault) ==
    LET out == QDeleteUser(Int32Of(id), fault)
    IN  IF out.err # "" THEN Result(Nil, <<MsgDelete, out.err>>, out)
        ELSE Result(Nil, NoError, out)

SvcDeactivateUser(id, fault) ==
    LET out == QDeactivateUser(Int32Of(id), fault)
    IN  IF out.err # "" THEN Result(Nil, <<MsgDeactivate, out.err>>, out)
        ELSE Result(Nil, NoError, out)

SvcVerifyPasswordTelling(email, password, fault) ==
    LET out == QGetUserByEmail(email, fault)
    IN  IF out.err = ErrNoRows THEN Result(Nil, <<MsgNotFound>>, out)
        ELSE IF out.err # "" THEN Result(Nil, <<MsgVerify, out.err>>, out)
        ELSE IF ~CompareHashAndPassword(out.rows[1].password_hash, password)
             THEN Result(Nil, <<MsgAuth>>, out)
        ELSE Result(Ptr(toUserResponse(out.rows[1])), NoError, out)
SvcVerifyPassword(email, password, fault) ==
    LET out == QGetUserByEmail(email, fault)
    IN  IF out.err = ErrNoRows THEN Result(Nil, <<MsgAuth>>, out)
        ELSE IF out.err # "" THEN Result(Nil, <<MsgVerify, out.err>>, out)
        ELSE IF ~CompareHashAndPassword(out.rows[1].password_hash, password)
             THEN Result(Nil, <<MsgAuth>>, out)
        ELSE Result(Ptr(toUserResponse(out.rows[1])), NoError, out)

DefaultPage == 1
DefaultPageSize == 10
MaxPageSize == 100

\* offset := (req.Page - 1) * req.PageSize, in int
ListOffset(req) == IntMul(IntSub1(req.Page), Int32Of(req.PageSize))

\* totalPages := totalCount / PageSize, plus one when there is a remainder
TotalPages(totalCount, pageSize) ==
    (totalCount \div pageSize) + (IF totalCount % pageSize # 0 THEN 1 ELSE 0)

\* ListUsers up to its first statement
SvcListUsersSelect(req, fault) ==
    LET out == QListUsers(Int32Of(req.PageSize), Int32Of(ListOffset(req)), fault)
    IN  IF out.err # "" THEN Result(Nil, <<MsgList, out.err>>, out)
        ELSE Result(Nil, NoError, out)

\* ListUsers from its second statement on; rows are those of the first
SvcListUsersCount(req, rows, fault) ==
    LET out == QCountUsers(fault)
    IN  IF out.err # "" THEN Result(Nil, <<MsgCount, out.err>>, out)
        ELSE Result(Ptr([Users |-> [i \in 1..Len(rows) |-> toUserResponse(rows[i])],
                         TotalCount |-> out.rows[1],
                         Page |-> req.Page, PageSize |-> req.PageSize,
                         TotalPages |-> TotalPages(out.rows[1],
                                                   Int32Of(req.PageSize))]),
                    NoError, out)

\* models.ListUsersResponse as JSON
MarshalList(r) ==
    [users |-> [i \in 1..Len(r.Users) |-> Marshal(r.Users[i])],
     total_count |-> r.TotalCount, page |-> r.Page, page_size |-> r.PageSize,
     total_pages |-> r.TotalPages]

(***************************************************************************)
(* handlers.UserHandler.  A request body is <<json>>, or <<>> when it does *)
(* not decode; a path or query number is a Go int, or <<>> when it does    *)
(* not parse.                                                              *)
(***************************************************************************)
StatusOK == 200
StatusCreated == 201
StatusNoContent == 204
StatusBadRequest == 400
StatusNotFound == 404
StatusInternalServerError == 500

Response(op, req, status, body) ==
    [op |-> op, req |-> req, status |-> status, body |-> body]
\* the answer of a service method that no route serves: no HTTP status
ServiceAnswer(op, req, r) == Response(op, req, 0, [user |-> r.user, err |-> r.err])

Undecodable == <<>>
Decodes(raw) == raw # Undecodable

\* the ListUsersRequest the handler hands to the service
ListUsersRequestClamped(query) ==
    LET page == IF "page" \in DOMAIN query THEN query.page ELSE GoInt(DefaultPage)
        size == IF "page_size" \in DOMAIN query THEN query.page_size
                ELSE GoInt(DefaultPageSize)
    IN  [Page |-> IF IntLess(page, 1) THEN GoInt(1) ELSE page,
         PageSize |-> IF IntLess(size, 1) THEN GoInt(1)
                      ELSE IF IntGreater(size, MaxPageSize) THEN GoInt(MaxPageSize)
                      ELSE size]
ListUsersRequest(query) ==
    LET page == IF "page" \in DOMAIN query THEN query.page ELSE GoInt(DefaultPage)
        size == IF "page_size" \in DOMAIN query THEN query.page_size
                ELSE GoInt(DefaultPageSize)
    IN  [Page |-> IF IntLess(page, 1) THEN GoInt(1) ELSE page,
         PageSize |-> IF IntLess(size, 1) \/ IntGreater(size, MaxPageSize)
                      THEN GoInt(DefaultPageSize) ELSE size]

\* c.QueryParser(&req) fails when a number does not parse
QueryParses(query) == \A k \in DOMAIN query : Decodes(query[k])

(***************************************************************************)
(* The requests.  Every action is one request (ListUsers: one statement of *)
(* it) and leaves its answer in resp.                                      *)
(***************************************************************************)
Commit(out) ==
    /\ out.seq <= MaxSerial
    /\ out.clock <= MaxClock
    /\ users' = out.users
    /\ seq' = out.seq
    /\ clock' = out.clock

\* POST /api/v1/users
CreateUser(raw, salt, fault) ==
    /\ before' = users
    /\ UNCHANGED listing
    /\ IF ~Decodes(raw)
       THEN /\ resp' = Response("CreateUser", raw, StatusBadRequest,
                                ErrorResponse(<<"invalid JSON">>, "INVALID_JSON"))
            /\ UNCHANGED <<users, seq, clock>>
       ELSE LET r == SvcCreateUser(CreateUserRequest(raw[1]), salt, fault)
            IN  /\ Commit(r.out)
                /\ resp' = IF r.err # NoError
                           THEN Response("CreateUser", raw, StatusInternalServerError,
                                         ErrorResponse(r.err, "CREATE_USER_ERROR"))
                           ELSE Response("CreateUser", raw, StatusCreated,
                                         Marshal(r.user[1]))

\* GET /api/v1/users/:id
GetUser(id, fault) ==
    /\ before' = users
    /\ UNCHANGED <<users, seq, clock, listing>>
    /\ IF ~Decodes(id)
       THEN resp' = Response("GetUser", id, StatusBadRequest,
                             ErrorResponse(<<"invalid user id">>, "INVALID_USER_ID"))
       ELSE LET r == SvcGetUserByID(id, fault)
            IN  resp' = IF r.err # NoError
                        THEN Response("GetUser", id, StatusNotFound,
                                      ErrorResponse(r.err, "USER_NOT_FOUND"))
                        ELSE Response("GetUser", id, StatusOK, Marshal(r.user[1]))

\* PUT /api/v1/users/:id
UpdateUser(id, raw, fault) ==
    /\ before' = users
    /\ UNCHANGED listing
    /\ IF ~Decodes(id)
       THEN /\ resp' = Response("UpdateUser", <<id, raw>>, StatusBadRequest,
                                ErrorResponse(<<"invalid user id">>, "INVALID_USER_ID"))
            /\ UNCHANGED <<users, seq, clock>>
       ELSE IF ~Decodes(raw)
       THEN /\ resp' = Response("UpdateUser", <<id, raw>>, StatusBadRequest,
                                ErrorResponse(<<"invalid JSON">>, "INVALID_JSON"))
            /\ UNCHANGED <<users, seq, clock>>
       ELSE LET r == SvcUpdateUser(id, UpdateUserRequest(raw[1]), fault)
            IN  /\ Commit(r.out)
                /\ resp' = IF r.err # NoError
                           THEN Response("UpdateUser", <<id, raw>>,
                                         StatusInternalServerError,
                                         ErrorResponse(r.err, "UPDATE_USER_ERROR"))
                           ELSE Response("UpdateUser", <<id, raw>>, StatusOK,
                                         Marshal(r.user[1]))

\* PUT /api/v1/users/:id in two steps, for the requests that run at the same
\* time: up to the call of the service (the path id and the body are
\* parsed), and the call of the service with its one UPDATE and the answer.
\* An entry of updating keeps the request, the status of its answer (0 while
\* it has none) and its place in the order of the UPDATEs.
MaxInFlight == 2
MaxUpdateClock == 3

UpdateUserParse(id, raw) ==
    /\ Len(updating) < MaxInFlight
    /\ Decodes(id) /\ Decodes(raw)
    /\ updating' = Append(updating, [id |-> id, raw |-> raw,
                                     req |-> UpdateUserRequest(raw[1]),
                                     status |-> 0, at |-> 0])
    /\ UNCHANGED <<users, seq, clock, resp, before, listing>>

UpdateUserExec(i, fault) ==
    /\ i \in DOMAIN updating
    /\ updating[i].status = 0
    /\ before' = users
    /\ UNCHANGED listing
    /\ LET u == updating[i]
           r == SvcUpdateUser(u.id, u.req, fault)
           status == IF r.err # NoError THEN StatusInternalServerError ELSE StatusOK
           done == {j \in DOMAIN updating : updating[j].status # 0}
       IN  /\ r.out.seq <= MaxSerial
           /\ r.out.clock <= MaxUpdateClock
           /\ users' = r.out.users
           /\ seq' = r.out.seq
           /\ clock' = r.out.clock
           /\ resp' = IF r.err # NoError
                      THEN Response("UpdateUser", <<u.id, u.raw>>, status,
                                    ErrorResponse(r.err, "UPDATE_USER_ERROR"))
                      ELSE Response("UpdateUser", <<u.id, u.raw>>, status,
                                    Marshal(r.user[1]))
           /\ updating' = [updating EXCEPT ![i].status = status,
                                           ![i].at = Cardinality(done) + 1]

\* DELETE /api/v1/users/:id
DeleteUser(id, fault) ==
    /\ before' = users
    /\ UNCHANGED listing
    /\ IF ~Decodes(id)
       THEN /\ resp' = Response("DeleteUser", id, StatusBadRequest,
                                ErrorResponse(<<"invalid user id">>, "INVALID_USER_ID"))
            /\ UNCHANGED <<users, seq, clock>>
       ELSE LET r == SvcDeleteUser(id, fault)
            IN  /\ Commit(r.out)
                /\ resp' = IF r.err # NoError
                           THEN Response("DeleteUser", id, StatusInternalServerError,
                                         ErrorResponse(r.err, "DELETE_USER_ERROR"))
                           ELSE Response("DeleteUser", id, StatusNoContent, <<>>)

\* UserService.DeactivateUser, GetUserByEmail and VerifyPassword: no route
\* serves them, the answer is the result of the service.
DeactivateUser(id, fault) ==
    /\ before' = users
    /\ UNCHANGED listing
    /\ LET r == SvcDeactivateUser(id, fault)
       IN  /\ Commit(r.out)
           /\ resp' = ServiceAnswer("DeactivateUser", id, r)

GetUserByEmail(email, fault) ==
    /\ before' = users
    /\ UNCHANGED <<users, seq, clock, listing>>
    /\ LET r == SvcGetUserByEmail(email, fault)
       IN  resp' = ServiceAnswer("GetUserByEmail", email, r)

VerifyPassword(email, password, fault) ==
    /\ before' = users
    /\ UNCHANGED <<users, seq, clock, listing>>
    /\ LET r == SvcVerifyPassword(email, password, fault)
       IN  resp' = ServiceAnswer("VerifyPassword", <<email, password>>, r)

\* Queries.UpdateUserPassword: no service method calls it; the answer is the
\* error of the query.  id is the int32 of the query.
UpdateUserPassword(id, hash, fault) ==
    /\ before' = users
    /\ UNCHANGED listing
    /\ LET out == QUpdateUserPassword(id, hash, fault)
       IN  /\ Commit(out)
           /\ resp' = Response("UpdateUserPassword", <<id, hash>>, 0,
                               [user |-> Nil,
                                err |-> IF out.err # "" THEN <<out.err>> ELSE NoError])

\* GET /api/v1/users, up to the SELECT of the page
ListUsersSelect(query, fault) ==
    /\ listing = <<>>
    /\ UNCHANGED <<users, seq, clock>>
    /\ IF ~QueryParses(query)
       THEN /\ resp' = Response("ListUsers", query, StatusBadRequest,
                                ErrorResponse(<<"invalid query parameters">>,
                                              "INVALID_QUERY_PARAMS"))
            /\ before' = users
            /\ UNCHANGED listing
       ELSE LET req == ListUsersRequest(query)
                r == SvcListUsersSelect(req, fault)
            IN  IF r.err # NoError
                THEN /\ resp' = Response("ListUsers", query, StatusInternalServerError,
                                         ErrorResponse(r.err, "LIST_USERS_ERROR"))
                     /\ before' = users
                     /\ UNCHANGED listing
                ELSE /\ listing' = <<[query |-> query, req |-> req,
                                      rows |-> r.out.rows, snap |-> users]>>
                     /\ UNCHANGED <<resp, before>>

\* GET /api/v1/users, from the COUNT on
ListUsersCount(fault) ==
    /\ listing # <<>>
    /\ UNCHANGED <<users, seq, clock>>
    /\ listing' = <<>>
    /\ before' = listing[1].snap
    /\ LET r == SvcListUsersCount(listing[1].req, listing[1].rows, fault)
       IN  resp' = IF r.err # NoError
                   THEN Response("ListUsers", listing[1].query,
                                 StatusInternalServerError,
                                 ErrorResponse(r.err, "LIST_USERS_ERROR"))
                   ELSE Response("ListUsers", listing[1].query, StatusOK,
                                 MarshalList(r.user[1]))

(***************************************************************************)
(* The requests the model sends.                                           *)
(***************************************************************************)
Emails == {"a@x.io", "b@x.io"}
Passwords == {"pw1", "pw2"}

CreateBodies ==
    { [email |-> "a@x.io", username |-> "ann", password |-> "pw1"],
      [email |-> "a@x.io", username |-> "bob", password |-> "pw2",
       first_name |-> ""],
      [email |-> "b@x.io", username |-> "ann", password |-> "pw1",
       first_name |-> "Al", last_name |-> "Lee"],
      [email |-> "b@x.io", username |-> "bob", password |-> "pw2",
       last_name |-> ""] }

EmptyObject == [k \in {} |-> ""]
UpdateBodies ==
    { EmptyObject,
      [first_name |-> "Al"],
      [first_name |-> "", is_active |-> FALSE],
      [email |-> "b@x.io"],
      [username |-> "bob", last_name |-> "Lee"],
      [email |-> ""] }

\* 2^32 + 1: a path id whose low 32 bits are those of 1
WideOne == <<1, 1>>
Ids == {GoInt(n) : n \in 0..MaxSerial} \cup {WideOne}
PathIds == Ids \cup {Undecodable}

\* 21474838 * 100 = 2^31 + 152, and 1073741824 * 100 = 25 * 2^32
BigPage == GoInt(21474839)
WrapPage == GoInt(1073741825)
Queries ==
    { EmptyObject,
      [page |-> GoInt(2), page_size |-> GoInt(1)],
      [page |-> GoInt(1), page_size |-> GoInt(2)],
      [page |-> GoInt(2), page_size |-> GoInt(0)],
      [page |-> GoInt(0), page_size |-> GoInt(101)],
      [page |-> BigPage, page_size |-> GoInt(100)],
      [page |-> WrapPage, page_size |-> GoInt(100)],
      [page |-> Undecodable] }

Init ==
    /\ users = {}
    /\ seq = 0
    /\ clock = 0
    /\ resp = Response("none", <<>>, 0, <<>>)
    /\ before = {}
    /\ listing = <<>>
    /\ deleted = {}
    /\ updating = <<>>

CreateRaws == {<<b>> : b \in CreateBodies} \cup {Undecodable}
UpdateRaws == {<<b>> : b \in UpdateBodies} \cup {Undecodable}

\* The requests one after the other: no request starts while a ListUsers
\* is between its two statements (the fiber server runs them concurrently:
\* see the specifications with interleaved requests).
NoListInFlight == listing = <<>>

Next ==
    \/ NoListInFlight /\ UNCHANGED <<deleted, updating>>
         /\ \E raw \in CreateRaws, salt \in Salts : CreateUser(raw, salt, FALSE)
    \/ NoListInFlight /\ UNCHANGED <<deleted, updating>>
         /\ \E id \in PathIds : GetUser(id, FALSE)
    \/ NoListInFlight /\ UNCHANGED <<deleted, updating>>
         /\ \E id \in PathIds, raw \in UpdateRaws : UpdateUser(id, raw, FALSE)
    \/ NoListInFlight /\ UNCHANGED <<deleted, updating>>
         /\ \E id \in PathIds : DeleteUser(id, FALSE)
    \/ NoListInFlight /\ UNCHANGED <<deleted, updating>>
         /\ \E id \in Ids : DeactivateUser(id, FALSE)
    \/ NoListInFlight /\ UNCHANGED <<deleted, updating>>
         /\ \E email \in Emails : GetUserByEmail(email, FALSE)
    \/ NoListInFlight /\ UNCHANGED <<deleted, updating>>
         /\ \E email \in Emails, password \in Passwords :
               VerifyPassword(email, password, FALSE)
    \/ UNCHANGED <<deleted, updating>>
         /\ \E query \in Queries : ListUsersSelect(query, FALSE)
    \/ UNCHANGED <<deleted, updating>> /\ ListUsersCount(FALSE)

Spec == Init /\ [][Next]_vars

\* The same with fewer kinds of request, and with the history of the DELETE
\* requests that were answered 204.
NextDeleted ==
    \/ NoListInFlight /\ UNCHANGED <<deleted, updating>>
         /\ \E raw \in CreateRaws, salt \in Salts : CreateUser(raw, salt, FALSE)
    \/ NoListInFlight /\ UNCHANGED <<deleted, updating>>
         /\ \E id \in PathIds : GetUser(id, FALSE)
    \/ NoListInFlight /\ UNCHANGED updating
         /\ \E id \in PathIds :
               /\ DeleteUser(id, FALSE)
               /\ deleted' = IF resp'.status = StatusNoContent
                             THEN deleted \cup {id} ELSE deleted
    \/ UNCHANGED <<deleted, updating>> /\ ListUsersSelect(EmptyObject, FALSE)
    \/ UNCHANGED <<deleted, updating>> /\ ListUsersCount(FALSE)

SpecDeleted == Init /\ [][NextDeleted]_vars

\* The requests one after the other, each statement failing or not for a
\* reason other than its rows (a lost connection, a cancelled context).
NextFault ==
    \/ NoListInFlight /\ UNCHANGED <<deleted, updating>>
         /\ \E raw \in CreateRaws, salt \in Salts, fault \in BOOLEAN :
               CreateUser(raw, salt, fault)
    \/ NoListInFlight /\ UNCHANGED <<deleted, updating>>
         /\ \E id \in PathIds, fault \in BOOLEAN : GetUser(id, fault)
    \/ NoListInFlight /\ UNCHANGED <<deleted, updating>>
         /\ \E id \in PathIds, fault \in BOOLEAN : DeleteUser(id, fault)
    \/ NoListInFlight /\ UNCHANGED <<deleted, updating>>
         /\ \E email \in Emails, fault \in BOOLEAN : GetUserByEmail(email, fault)

SpecFault == Init /\ [][NextFault]_vars

\* Requests whose email or username breaks the validate tags of the request
\* structures (required, email, min=3), and one that keeps them.
MinUsername == 3
MalformedCreateBodies ==
    { [email |-> "a@x.io", username |-> "al", password |-> "pw1"],
      [email |-> "nomail", username |-> "ann", password |-> "pw1"],
      [username |-> "bob", password |-> "pw2"],
      [email |-> "b@x.io", password |-> "pw2"] }
MalformedUpdateBodies ==
    { [username |-> "al"], [email |-> ""], [email |-> "nomail"] }
WellFormedBody == [email |-> "b@x.io", username |-> "carl", password |-> "pw1"]

NextMalformed ==
    \/ NoListInFlight /\ UNCHANGED <<deleted, updating>>
         /\ \E body \in MalformedCreateBodies \cup {WellFormedBody}, salt \in Salts :
               CreateUser(<<body>>, salt, FALSE)
    \/ NoListInFlight /\ UNCHANGED <<deleted, updating>>
         /\ \E id \in Ids, body \in MalformedUpdateBodies :
               UpdateUser(id, <<body>>, FALSE)
    \/ NoListInFlight /\ UNCHANGED <<deleted, updating>>
         /\ \E id \in Ids : GetUser(id, FALSE)

SpecMalformed == Init /\ [][NextMalformed]_vars

\* The requests that write, one after the other.
NextWrites ==
    \/ NoListInFlight /\ UNCHANGED <<deleted, updating>>
         /\ \E raw \in CreateRaws, salt \in Salts : CreateUser(raw, salt, FALSE)
    \/ NoListInFlight /\ UNCHANGED <<deleted, updating>>
         /\ \E id \in Ids, body \in UpdateBodies : UpdateUser(id, <<body>>, FALSE)
    \/ NoListInFlight /\ UNCHANGED <<deleted, updating>>
         /\ \E id \in 0..MaxSerial, password \in Passwords, salt \in Salts :
               UpdateUserPassword(id, GenerateFromPassword(password, DefaultCost, salt),
                                  FALSE)
    \/ NoListInFlight /\ UNCHANGED <<deleted, updating>>
         /\ \E id \in Ids : DeactivateUser(id, FALSE)
    \/ NoListInFlight /\ UNCHANGED <<deleted, updating>>
         /\ \E id \in Ids : DeleteUser(id, FALSE)

SpecWrites == Init /\ [][NextWrites]_vars

\* The requests as the server runs them, each in its own goroutine: creates
\* and deletes run between the two statements of a ListUsers.
PageQueries ==
    { EmptyObject,
      [page |-> GoInt(2), page_size |-> GoInt(1)],
      [page |-> GoInt(1), page_size |-> GoInt(2)] }

NextInterleaved ==
    \/ UNCHANGED <<deleted, updating>>
         /\ \E raw \in CreateRaws, salt \in Salts : CreateUser(raw, salt, FALSE)
    \/ UNCHANGED <<deleted, updating>>
         /\ \E id \in Ids : DeleteUser(id, FALSE)
    \/ UNCHANGED <<deleted, updating>>
         /\ \E query \in PageQueries : ListUsersSelect(query, FALSE)
    \/ UNCHANGED <<deleted, updating>> /\ ListUsersCount(FALSE)

SpecInterleaved == Init /\ [][NextInterleaved]_vars

\* Creates, and update requests on the first user that run at the same
\* time: the UPDATE of one runs while others have parsed their request.
\* Of the bodies, the second has no field in common with the other two.
ConcurrentBodies ==
    { [first_name |-> "Al"],
      [username |-> "bob", last_name |-> "Lee"],
      [first_name |-> "", is_active |-> FALSE] }
ConcurrentCreates ==
    { [email |-> "a@x.io", username |-> "ann", password |-> "pw1"],
      [email |-> "b@x.io", username |-> "bob", password |-> "pw2",
       last_name |-> ""] }

NextUpdates ==
    \/ UNCHANGED <<deleted, updating>>
         /\ \E body \in ConcurrentCreates, salt \in Salts :
               CreateUser(<<body>>, salt, FALSE)
    \/ UNCHANGED deleted
         /\ \E body \in ConcurrentBodies : UpdateUserParse(GoInt(1), <<body>>)
    \/ UNCHANGED deleted
         /\ \E i \in 1..MaxInFlight : UpdateUserExec(i, FALSE)

SpecUpdates == Init /\ [][NextUpdates]_vars

(***************************************************************************)
(* What the answers are checked against.                                   *)
(***************************************************************************)
Answered(op, status) == resp.op = op /\ resp.status = status

\* the stored row a path id names: the one whose id is that number
RowsOf(rows, id) == {r \in rows : GoInt(r.id) = id}

\* C1: every user value an operation returns, and every user in a success
\* body, has the public fields of a user and nothing else: no password hash
\* and no password, whatever requests produced the row.
WireKeys ==
    {"id", "email", "username", "first_name", "last_name", "is_active",
     "created_at", "updated_at"}
PublicFields ==
    {"ID", "Email", "Username", "FirstName", "LastName", "IsActive",
     "CreatedAt", "UpdatedAt"}
NoPasswordInAnswers ==
    /\ resp.op \in {"CreateUser", "GetUser", "UpdateUser"} /\ resp.status \in {200, 201}
         => DOMAIN resp.body \subseteq WireKeys
    /\ Answered("ListUsers", 200)
         => \A i \in 1..Len(resp.body.users) :
                DOMAIN resp.body.users[i] \subseteq WireKeys
    /\ resp.op \in {"GetUserByEmail", "VerifyPassword"} /\ resp.body.user # Nil
         => DOMAIN resp.body.user[1] \subseteq PublicFields

\* C1, its case: a user is fetched after an update of its row, and the row
\* holds a password hash.
UpdatedUserFetched ==
    /\ Answered("GetUser", 200)
    /\ \E r \in users :
          /\ r.id = resp.body.id
          /\ r.updated_at > r.created_at
          /\ r.password_hash.digest # <<>>

\* C2: no two stored users share an email or a username; a create or an
\* update that would make two users share one fails and leaves the stored
\* users as they were.
WouldCollide ==
    \/ /\ resp.op = "CreateUser" /\ Decodes(resp.req)
       /\ \E r \in before : \/ r.email = Field(resp.req[1], "email")
                            \/ r.username = Field(resp.req[1], "username")
    \/ /\ resp.op = "UpdateUser" /\ Decodes(resp.req[1]) /\ Decodes(resp.req[2])
       /\ \E old \in RowsOf(before, resp.req[1]), r \in before :
             /\ r # old
             /\ \/ "email" \in DOMAIN resp.req[2][1] /\ r.email = resp.req[2][1].email
                \/ /\ "username" \in DOMAIN resp.req[2][1]
                   /\ r.username = resp.req[2][1].username
EmailAndUsernameUnique ==
    /\ \A r1, r2 \in users :
          r1.id # r2.id => r1.email # r2.email /\ r1.username # r2.username
    /\ \A r1, r2 \in users : r1.id = r2.id => r1 = r2
    /\ WouldCollide => resp.status \notin {200, 201} /\ users = before

\* C2, its case: an update that would give a user the email of another one
\* was refused.
CollidingUpdateRefused ==
    /\ resp.op = "UpdateUser"
    /\ WouldCollide
    /\ resp.status = 500
    /\ Cardinality(users) = 2

\* C3 (as claimed): a create request with the email of a stored user, which
\* an earlier create request put there, is answered 409 Conflict.
DuplicateEmailIsConflict ==
    /\ resp.op = "CreateUser"
    /\ Decodes(resp.req)
    /\ \E r \in before : r.email = Field(resp.req[1], "email")
    => resp.status = 409

\* C4: a successful update of a stored user leaves the fields whose key the
\* body lacks as they were, sets those whose key it has to the value sent
\* (the empty string too), keeps id, created_at and password_hash, and
\* moves updated_at forward.
UpdateKeepsAbsentAndSetsPresent ==
    Answered("UpdateUser", 200) =>
        LET body == resp.req[2][1]
            Has(k) == k \in DOMAIN body
        IN  \A old \in RowsOf(before, resp.req[1]) :
              \E new \in users :
                /\ \A r \in users : r.id = old.id => r = new
                /\ new.id = old.id
                /\ new.created_at = old.created_at
                /\ new.password_hash = old.password_hash
                /\ new.updated_at > old.updated_at
                /\ new.email = IF Has("email") THEN body.email ELSE old.email
                /\ new.username = IF Has("username") THEN body.username
                                  ELSE old.username
                /\ new.first_name = IF Has("first_name")
                                    THEN [Val |-> body.first_name, Valid |-> TRUE]
                                    ELSE old.first_name
                /\ new.last_name = IF Has("last_name")
                                   THEN [Val |-> body.last_name, Valid |-> TRUE]
                                   ELSE old.last_name
                /\ new.is_active = IF Has("is_active") THEN body.is_active
                                   ELSE old.is_active

\* C4, its case: an update whose body has first_name "" emptied the first
\* name of a user that had one, and left its email and username.
EmptyFirstNameOverwrote ==
    /\ Answered("UpdateUser", 200)
    /\ "first_name" \in DOMAIN resp.req[2][1]
    /\ resp.req[2][1].first_name = ""
    /\ \E old \in RowsOf(before, resp.req[1]), new \in users :
          /\ new.id = old.id
          /\ old.first_name = [Val |-> "Al", Valid |-> TRUE]
          /\ new.first_name = [Val |-> "", Valid |-> TRUE]
          /\ new.email = old.email /\ new.username = old.username

\* C5 (as claimed): a created user has first_name and last_name exactly when
\* the request had the key, with the value sent (the empty string too), in
\* the stored row and in the answer, and a fetch shows what is stored.
NamesKeptAsSent ==
    /\ Answered("CreateUser", 201) =>
          \A k \in {"first_name", "last_name"} :
            /\ k \in DOMAIN resp.body <=> k \in DOMAIN resp.req[1]
            /\ k \in DOMAIN resp.req[1] /\ k \in DOMAIN resp.body
                 => resp.body[k] = resp.req[1][k]
            /\ \E r \in users :
                  /\ r.id = resp.body.id
                  /\ r[k].Valid <=> k \in DOMAIN resp.req[1]
    /\ Answered("GetUser", 200) =>
          \E r \in users :
             /\ r.id = resp.body.id
             /\ \A k \in {"first_name", "last_name"} :
                   /\ k \in DOMAIN resp.body <=> r[k].Valid
                   /\ r[k].Valid => resp.body[k] = r[k].Val

\* C6 (as claimed): with no write since the request started, a list request
\* for a page >= 1 and a page_size in 1..100 is answered 200 with the users
\* ranked offset+1 .. min(offset+page_size, N) by creation time, latest
\* first, where offset = (page-1)*page_size, with total_count = N and
\* total_pages = ceil(N/page_size); a page past the last one gives no users.
ListIsThePage ==
    /\ resp.op = "ListUsers"
    /\ QueryParses(resp.req)
    /\ {"page", "page_size"} \subseteq DOMAIN resp.req
    /\ ~IntLess(resp.req.page, 1)
    /\ ~IntLess(resp.req.page_size, 1) /\ ~IntGreater(resp.req.page_size, 100)
    /\ before = users
    => LET page == resp.req.page
           size == resp.req.page_size[2]
           N == Cardinality(users)
           \* page - 1 >= N: the page is past the last one, whatever the size
           past == High(page) > 0 \/ page[2] - 1 >= N
           offset == IF past THEN N ELSE (page[2] - 1) * size
           count == IF offset >= N THEN 0
                    ELSE IF size < N - offset THEN size ELSE N - offset
       IN  /\ resp.status = 200
           /\ Len(resp.body.users) = count
           /\ \A i \in 1..count :
                 \E r \in users :
                    /\ r.id = resp.body.users[i].id
                    /\ Cardinality({x \in users : x.created_at > r.created_at})
                         = offset + i - 1
           /\ resp.body.total_count = N
           /\ resp.body.total_pages * size >= N
           /\ (resp.body.total_pages - 1) * size < N \/ resp.body.total_pages = 0

\* C7 (as claimed): the service is called, and the answer echoes, page 1 for
\* a page left out or below 1, and page_size 10 when left out, else the
\* page_size asked for clamped into 1..100.
PageSizeClamped ==
    LET Page(q) == IF "page" \notin DOMAIN q THEN GoInt(1)
                   ELSE IF IntLess(q.page, 1) THEN GoInt(1) ELSE q.page
        Size(q) == IF "page_size" \notin DOMAIN q THEN GoInt(10)
                   ELSE IF IntLess(q.page_size, 1) THEN GoInt(1)
                   ELSE IF IntGreater(q.page_size, 100) THEN GoInt(100)
                   ELSE q.page_size
    IN  /\ listing # <<>> =>
              /\ listing[1].req.Page = Page(listing[1].query)
              /\ listing[1].req.PageSize = Size(listing[1].query)
        /\ Answered("ListUsers", 200) =>
              /\ resp.body.page = Page(resp.req)
              /\ resp.body.page_size = Size(resp.req)

\* C7 (amended): the service is called, and the answer echoes, page 1 for a
\* page left out or below 1, and page_size 10 when left out or outside
\* 1..100, else the page_size asked for.
PageSizeDefaulted ==
    LET Page(q) == IF "page" \notin DOMAIN q THEN GoInt(1)
                   ELSE IF IntLess(q.page, 1) THEN GoInt(1) ELSE q.page
        Size(q) == IF "page_size" \notin DOMAIN q THEN GoInt(10)
                   ELSE IF IntLess(q.page_size, 1) \/ IntGreater(q.page_size, 100)
                        THEN GoInt(10)
                   ELSE q.page_size
    IN  /\ listing # <<>> =>
              /\ listing[1].req.Page = Page(listing[1].query)
              /\ listing[1].req.PageSize = Size(listing[1].query)
        /\ Answered("ListUsers", 200) =>
              /\ resp.body.page = Page(resp.req)
              /\ resp.body.page_size = Size(resp.req)

\* C7, its case: a list request with page 0 and page_size 101 was answered
\* for page 1 and page_size 10.
OversizedPageAnswered ==
    /\ Answered("ListUsers", 200)
    /\ resp.req = [page |-> GoInt(0), page_size |-> GoInt(101)]
    /\ resp.body.page = GoInt(1)
    /\ resp.body.page_size = GoInt(10)
    /\ Len(resp.body.users) = 2

\* C8: VerifyPassword returns the user when a stored user has the email and
\* the password is the one its hash was made from; for an unknown email and
\* for a wrong password it fails with one and the same error.
VerifyTellsNothing ==
    resp.op = "VerifyPassword" =>
        LET email == resp.req[1]
            password == resp.req[2]
            known == {r \in users : r.email = email}
            right == {r \in known : r.password_hash.digest[4] = password}
        IN  /\ right # {} =>
                 /\ resp.body.err = <<>>
                 /\ resp.body.user # <<>>
                 /\ \E r \in right : /\ resp.body.user[1].ID = r.id
                                     /\ resp.body.user[1].Email = email
                                     /\ resp.body.user[1].Username = r.username
            /\ known = {} \/ right = {} =>
                 resp.body = [user |-> <<>>, err |-> <<"wrong email or password">>]

\* C8, its case: with a user stored, a verification for an email that no
\* user has failed.
UnknownEmailRefused ==
    /\ resp.op = "VerifyPassword"
    /\ users # {}
    /\ \A r \in users : r.email # resp.req[1]
    /\ resp.body.user = <<>>

\* C9 (as claimed): once a DELETE of id X was answered 204, no fetch of X is
\* answered other than 404 and no list holds X; and that DELETE left the
\* users other than X as they were.
DeletedStaysGone ==
    /\ resp.op = "GetUser" /\ resp.req \in deleted => resp.status = 404
    /\ Answered("ListUsers", 200) =>
          \A i \in 1..Len(resp.body.users) :
             GoInt(resp.body.users[i].id) \notin deleted
    /\ Answered("DeleteUser", 204) =>
          \A r \in before : GoInt(r.id) # resp.req => r \in users

\* C10 (as claimed): a DELETE of an id that no stored user has is answered
\* 404 Not Found.
DeleteOfAbsentIsNotFound ==
    /\ resp.op = "DeleteUser"
    /\ Decodes(resp.req)
    /\ RowsOf(before, resp.req) = {}
    => resp.status = 404

\* C11 (as claimed): an update request for an id that no stored user has is
\* answered 404 Not Found and leaves the stored users as they were.
UpdateOfAbsentIsNotFound ==
    /\ resp.op = "UpdateUser"
    /\ Decodes(resp.req[1]) /\ Decodes(resp.req[2])
    /\ RowsOf(before, resp.req[1]) = {}
    => resp.status = 404 /\ users = before

\* C12 (as claimed): a GET by id is answered 404 exactly when no stored user
\* has the id; when the lookup fails for another reason (the error of the
\* answer wraps a cause) the answer is 500, never 404.
GetIsNotFoundOnlyForNoRow ==
    resp.op = "GetUser" /\ Decodes(resp.req) =>
        IF resp.status # 200 /\ Len(resp.body.error) = 2
        THEN resp.status = 500
        ELSE resp.status = 404 <=> RowsOf(before, resp.req) = {}

\* C13 (as claimed): every stored user has a username of at least 3
\* characters and an email shaped like an address; a create or update
\* request with another value (or a create without email or username) is
\* refused and leaves the stored users as they were.
WellFormed(email, username) == email \in Emails /\ Len(username) >= MinUsername
StoredUsersAreWellFormed ==
    /\ \A r \in users : WellFormed(r.email, r.username)
    /\ /\ resp.op = "CreateUser" /\ Decodes(resp.req)
       /\ ~WellFormed(Field(resp.req[1], "email"), Field(resp.req[1], "username"))
       => resp.status # 201 /\ users = before
    /\ /\ resp.op = "UpdateUser" /\ Decodes(resp.req[1]) /\ Decodes(resp.req[2])
       /\ \/ /\ "email" \in DOMAIN resp.req[2][1]
             /\ resp.req[2][1].email \notin Emails
          \/ /\ "username" \in DOMAIN resp.req[2][1]
             /\ Len(resp.req[2][1].username) < MinUsername
       => resp.status # 200 /\ users = before

\* C14: a successful create gets an id above every id handed out before
\* (to users since deleted and to creates that failed, too), and no request
\* changes the id of a stored user: every user of the next state is a user
\* of this one with its id, or has a new id.
IdsNeverReused ==
    [][/\ seq' >= seq
       /\ \A r \in users' :
             /\ r.id <= seq'
             /\ \/ \E o \in users : o.id = r.id /\ o.created_at = r.created_at
                \/ r.id > seq /\ \A o \in users : o.created_at # r.created_at
       /\ \A o \in users, r \in users' :
             o.created_at = r.created_at => o.id = r.id]_vars

\* C14, its case: with the only user deleted, the next create got id 2, not
\* the id 1 of the deleted one.
CreatedAfterDeleteIsNew ==
    /\ Answered("CreateUser", 201)
    /\ before = {}
    /\ resp.body.id = 2
    /\ seq = 2
    /\ \A r \in users : r.id = 2

\* C15: every stored user has updated_at >= created_at; no request changes
\* the created_at of a user; a successful update (with an empty body too),
\* password update or deactivation of a stored user sets its updated_at to
\* the time of the request; and a deactivation sets is_active to false,
\* removes no row and changes nothing else.
TimestampsKept ==
    /\ \A r \in users : r.updated_at >= r.created_at
    /\ \A o \in before, r \in users : o.id = r.id => r.created_at = o.created_at
    /\ Answered("UpdateUser", 200) =>
          \E r \in users :
             /\ r.id = resp.body.id
             /\ r.updated_at = clock
             /\ resp.body.updated_at = clock
             /\ \A o \in before : o.id = r.id => o.updated_at < clock
    /\ resp.op = "UpdateUserPassword" /\ resp.body.err = NoError =>
          \A o \in before :
             o.id = resp.req[1] =>
                [o EXCEPT !.password_hash = resp.req[2], !.updated_at = clock] \in users
    /\ resp.op = "DeactivateUser" /\ resp.body.err = NoError =>
          /\ {r.id : r \in users} = {o.id : o \in before}
          /\ \A o \in RowsOf(before, resp.req) :
                /\ [o EXCEPT !.is_active = FALSE, !.updated_at = clock] \in users
                /\ o.updated_at < clock

\* C15, its case: an active user was deactivated: it is still stored, not
\* active, and its updated_at is the time of the deactivation, after its
\* created_at.
DeactivatedUserKept ==
    /\ resp.op = "DeactivateUser" /\ resp.body.err = NoError
    /\ \E o \in RowsOf(before, resp.req), r \in users :
          /\ r.id = o.id
          /\ o.is_active /\ ~r.is_active
          /\ r.updated_at = clock /\ r.updated_at > r.created_at

\* C16 (as claimed): for every id the path gives, GetUser answers with the
\* user of that id only, and UpdateUser and DeleteUser leave every user of
\* another id as it was; an id outside 32 bits names no user: the fetch is
\* answered 404, the update is refused, and no user is changed or removed.
PathIdNamesOnlyItsUser ==
    /\ Answered("GetUser", 200) => GoInt(resp.body.id) = resp.req
    /\ resp.op = "UpdateUser" /\ Decodes(resp.req[1]) /\ Decodes(resp.req[2]) =>
          /\ \A o \in before : GoInt(o.id) # resp.req[1] => o \in users
          /\ High(resp.req[1]) # 0 => resp.status # 200 /\ users = before
    /\ resp.op = "DeleteUser" /\ Decodes(resp.req) =>
          /\ \A o \in before : GoInt(o.id) # resp.req => o \in users
          /\ High(resp.req) # 0 => users = before
    /\ resp.op = "GetUser" /\ Decodes(resp.req) /\ High(resp.req) # 0 =>
          resp.status = 404

\* C17 (as claimed): in every list answer, also with creates and deletes
\* between its statements, the number of users is
\* min(page_size, max(0, total_count - offset)) and total_pages is
\* ceil(total_count / page_size), for the total_count of the answer.
ListIsOneSnapshot ==
    Answered("ListUsers", 200) =>
        LET size == resp.body.page_size[2]
            offset == (resp.body.page[2] - 1) * size
            total == resp.body.total_count
            left == IF total > offset THEN total - offset ELSE 0
        IN  /\ Len(resp.body.users) = IF size < left THEN size ELSE left
            /\ resp.body.total_pages * size >= total
            /\ (resp.body.total_pages - 1) * size < total \/ resp.body.total_pages = 0

\* C18 (as claimed): for every list request the handler lets through, the
\* offset the SELECT gets is (page - 1) * page_size, not less than 0: the
\* request is not refused for its offset, and a page past the last user is
\* answered with no users.
OffsetIsExact ==
    resp.op = "ListUsers" /\ QueryParses(resp.req) =>
        LET req == ListUsersRequest(resp.req)
            exact == ListOffset(req)
            given == Int32Of(exact)
        IN  /\ given >= 0
            /\ GoInt(given) = exact
            /\ resp.status = 200
            /\ IntGreater(exact, Cardinality(before)) => resp.body.users = <<>>

\* C19: of the update requests on one user that were answered 200, in
\* whatever order their UPDATEs ran and whenever they were parsed, the stored
\* user holds for each field the value of the last request that supplied
\* it: a request that does not supply a field does not revert it.
Supplied(i) == DOMAIN updating[i].raw[1]
StoredAs(k, v) ==
    IF k \in {"first_name", "last_name"} THEN [Val |-> v, Valid |-> TRUE] ELSE v
NoLostUpdate ==
    \A i \in DOMAIN updating :
        updating[i].status = 200 =>
            \E r \in users :
                /\ GoInt(r.id) = updating[i].id
                /\ \A k \in Supplied(i) :
                      \/ \E j \in DOMAIN updating :
                            /\ updating[j].status = 200
                            /\ updating[j].id = updating[i].id
                            /\ updating[j].at > updating[i].at
                            /\ k \in Supplied(j)
                      \/ r[k] = StoredAs(k, updating[i].raw[1][k])

\* C19, its case: two requests on one user with no field in common were
\* both in flight, the one parsed first ran its UPDATE last, both were
\* answered 200 and the user holds the fields of both.
BothUpdatesTookEffect ==
    /\ Len(updating) = 2
    /\ updating[1].id = updating[2].id
    /\ updating[1].status = 200 /\ updating[2].status = 200
    /\ updating[1].at = 2 /\ updating[2].at = 1
    /\ Supplied(1) # {} /\ Supplied(2) # {}
    /\ Supplied(1) \cap Supplied(2) = {}
    /\ \E r \in users :
          /\ GoInt(r.id) = updating[1].id
          /\ \A k \in Supplied(1) : r[k] = StoredAs(k, updating[1].raw[1][k])
          /\ \A k \in Supplied(2) : r[k] = StoredAs(k, updating[2].raw[1][k])

====
